---- MODULE Spec2Model ----
(***************************************************************************)
(* Model of the knowledge-base retrieval engine of multy_chat              *)
(* (src-tauri/src/rag/mod.rs, commands/knowledge.rs, lib.rs).              *)
(*                                                                         *)
(* The state machines of the module:                                       *)
(*   SpecChunk : chunk_text run one loop iteration at a time on a bounded  *)
(*               text, window size and overlap;                            *)
(*   Spec      : the chunk store, the embedder and similarity search,      *)
(*               driven one call at a time, each call split at its         *)
(*               accesses to the file system and to the embedding model;   *)
(*   SpecCos   : cosine_similarity applied to a pair of f32 vectors drawn  *)
(*               at three magnitudes;                                      *)
(*   SpecCmd   : the upload_file command with the document registry,       *)
(*               one command at a time;                                    *)
(*   SpecConc  : two calls on the chunk store at once, on one bucket or    *)
(*               on two.                                                   *)
(***************************************************************************)
EXTENDS Integers, Sequences, FiniteSets, TLC

VARIABLES
    \* ---- chunk_text (rag/mod.rs:132-156)
    text,        \* the argument text: a sequence of characters
    chunk_size,  \* the argument chunk_size
    overlap,     \* the argument overlap
    words,       \* local words: the whitespace-delimited tokens of text
    i,           \* local i: start index of the current window (0-based)
    chunks,      \* local chunks: the windows emitted so far
    ends,        \* history: the value of `end` at every emitted window
    cpc,         \* position in chunk_text: "start", "loop", "done"
    \* ---- cosine_similarity (rag/mod.rs:244-254)
    vec_a,       \* the argument a
    vec_b,       \* the argument b
    similarity,  \* the value returned
    cospc,       \* position in cosine_similarity: "start", "done"
    \* ---- parse_file, the docx branch (rag/mod.rs:104-120)
    xml,         \* local content: the characters of word/document.xml
    parts,       \* history: the tags and runs of text that xml is made of
    dpos,        \* number of characters of xml the for loop has consumed
    in_tag,      \* local in_tag
    result,      \* local result: the characters of the tag read so far
    docx_text,   \* local text: the extracted text
    \* ---- store, embedder, search
    host,        \* who drives the module: "app" (as wired by run()) or "lib"
    CACHE_DIR,   \* whether the OnceLock CACHE_DIR has been set
    modelLoads,  \* number of successful TextEmbedding::try_new calls (saturating)
    store,       \* per bucket: the bucket directory and its chunks.json
    pc,          \* per caller: position in the running call
    call,        \* per caller: the running (or last) call and its arguments
    embeddings,  \* per caller: local embeddings / query_embeddings
    stored_chunks, \* per caller: local stored_chunks / chunks as loaded
    ret,         \* per caller: what the last completed call returned
    pre,         \* per caller: history, the store, the load count and the
                 \* registry at call time, and whether every command so far
                 \* returned Ok
    \* ---- document registry (db/mod.rs) and commands (commands/knowledge.rs)
    db,          \* database.json: buckets and bucket_files
    uuids,       \* number of Uuid::new_v4() file ids handed out
    local_db       \* per caller: local db, the Database between load_db and save_db

chunkVars == <<text, chunk_size, overlap, words, i, chunks, ends, cpc>>
cosVars == <<vec_a, vec_b, similarity, cospc>>
docxVars == <<xml, parts, dpos, in_tag, result, docx_text>>
pureVars == <<chunkVars, cosVars, docxVars>>
regVars == <<db, uuids, local_db>>
storeVars == <<host, CACHE_DIR, modelLoads, store, pc, call, embeddings,
               stored_chunks, ret, pre, regVars>>
vars == <<text, chunk_size, overlap, words, i, chunks, ends, cpc,
          vec_a, vec_b, similarity, cospc,
          xml, parts, dpos, in_tag, result, docx_text,
          host, CACHE_DIR, modelLoads, store, pc, call, embeddings,
          stored_chunks, ret, pre, db, uuids, local_db>>

(***************************************************************************)
(* Bounds                                                                  *)
(***************************************************************************)
MaxTextLen == 7      \* characters in the text given to chunk_text
MaxChunkSize == 3    \* largest chunk_size tried
MaxOverlap == 3      \* largest overlap tried

Min(a, b) == IF a <= b THEN a ELSE b

(***************************************************************************)
(* chunk_text                                                              *)
(***************************************************************************)
\* char::is_whitespace, on the characters of the texts tried
Whitespace == {" "}
Chars == {"a", "b"} \cup Whitespace
Texts == UNION {[1..n -> Chars] : n \in 0..MaxTextLen}

\* str::split_whitespace: maximal runs of non-whitespace characters.
RECURSIVE SplitFrom(_, _, _, _)
SplitFrom(s, k, cur, acc) ==
    IF k > Len(s)
    THEN IF cur = <<>> THEN acc ELSE Append(acc, cur)
    ELSE IF s[k] \in Whitespace
         THEN SplitFrom(s, k + 1, <<>>, IF cur = <<>> THEN acc ELSE Append(acc, cur))
         ELSE SplitFrom(s, k + 1, Append(cur, s[k]), acc)

split_whitespace(s) == SplitFrom(s, 1, <<>>, <<>>)

\* words[from..to].join(" ") with from, to 0-based and to exclusive.
RECURSIVE join(_, _, _)
join(ws, from, to) ==
    IF from >= to THEN <<>>
    ELSE IF from + 1 = to THEN ws[from + 1]
    ELSE ws[from + 1] \o <<" ">> \o join(ws, from + 1, to)

\* The check inverted: true of a chunk that has a non-whitespace character.
trim_is_nonempty(s) == \E k \in 1..Len(s) : s[k] \notin Whitespace

\* chunk.trim().is_empty()
trim_is_empty(s) == \A k \in 1..Len(s) : s[k] \in Whitespace

\* usize::saturating_sub
saturating_sub(a, b) == IF a >= b THEN a - b ELSE 0

\* Advance with the overlap forgotten: i += chunk_size.
AdvanceNoOverlap(w, o) == w

\* Advance that is one token too long.
AdvanceOneMore(w, o) == saturating_sub(w, o) + 1

\* The advance of i at the end of an iteration (rag/mod.rs:152).
Advance(w, o) == saturating_sub(w, o)

\* A run that never ends is cut once it has emitted more windows than there
\* are tokens (a run that ends emits at most one window per token).
ChunkCap == Len(words) + 1

ChunkInit ==
    /\ text \in Texts
    /\ chunk_size \in 0..MaxChunkSize
    /\ overlap \in 0..MaxOverlap
    /\ words = <<>>
    /\ i = 0
    /\ chunks = <<>>
    /\ ends = <<>>
    /\ cpc = "start"

\* rag/mod.rs:133-140: tokenize, return at once when there is no token.
ChunkBegin ==
    /\ cpc = "start"
    /\ words' = split_whitespace(text)
    /\ cpc' = IF words' = <<>> THEN "done" ELSE "loop"
    /\ i' = 0
    /\ UNCHANGED <<text, chunk_size, overlap, chunks, ends>>
    /\ UNCHANGED cosVars /\ UNCHANGED docxVars
    /\ UNCHANGED storeVars

\* rag/mod.rs:141-153: one iteration of the while loop.
ChunkIter ==
    /\ cpc = "loop"
    /\ Len(chunks) < ChunkCap
    /\ IF ~(i < Len(words))
       THEN /\ cpc' = "done"
            /\ UNCHANGED <<i, chunks, ends>>
       ELSE LET end == Min(i + chunk_size, Len(words))
                chunk == join(words, i, end)
            IN  /\ chunks' = IF ~trim_is_empty(chunk) THEN Append(chunks, chunk) ELSE chunks
                /\ ends' = IF ~trim_is_empty(chunk) THEN Append(ends, end) ELSE ends
                /\ IF end >= Len(words)
                   THEN cpc' = "done" /\ i' = i
                   ELSE cpc' = "loop" /\ i' = i + Advance(chunk_size, overlap)
    /\ UNCHANGED <<text, chunk_size, overlap, words>>
    /\ UNCHANGED cosVars /\ UNCHANGED docxVars
    /\ UNCHANGED storeVars

ChunkNext == ChunkBegin \/ ChunkIter

\* chunk_text (rag/mod.rs:141-153) as a function: the while loop from start
\* index at with the windows acc emitted so far.
RECURSIVE chunk_loop(_, _, _, _, _)
chunk_loop(ws, w, o, at, acc) ==
    IF ~(at < Len(ws)) THEN acc
    ELSE LET end == Min(at + w, Len(ws))
             chunk == join(ws, at, end)
             acc2 == IF ~trim_is_empty(chunk) THEN Append(acc, chunk) ELSE acc
         IN  IF end >= Len(ws) THEN acc2
             ELSE chunk_loop(ws, w, o, at + Advance(w, o), acc2)

\* chunk_text (rag/mod.rs:132-156) as a function, for chunk_size > overlap.
chunk_text(t, w, o) ==
    IF split_whitespace(t) = <<>> THEN <<>>
    ELSE chunk_loop(split_whitespace(t), w, o, 0, <<>>)


\* parse_file is not running.
DocxIdle ==
    /\ xml = <<>> /\ parts = <<>> /\ dpos = 0
    /\ in_tag = FALSE /\ result = <<>> /\ docx_text = <<>>

\* cosine_similarity and parse_file are not running.
CosIdle ==
    /\ vec_a = <<>> /\ vec_b = <<>>
    /\ similarity = [k |-> "fin", num |-> 0, den2 |-> 1]
    /\ cospc = "done"
    /\ DocxIdle

SpecChunkInit ==
    /\ ChunkInit
    /\ CosIdle
    /\ host = "lib"
    /\ CACHE_DIR = FALSE
    /\ modelLoads = 0
    /\ store = [b \in {"A"} |-> [kind |-> "nodir", recs |-> <<>>]]
    /\ pc = [p \in {"p1", "p2"} |-> "idle"]
    /\ call = [p \in {"p1", "p2"} |->
                 [op |-> "none", bucket_id |-> "A", filename |-> "", chunks |-> <<>>,
                  query |-> <<>>, top_k |-> 0, file_id |-> 0,
                  doc |-> [name |-> "", present |-> FALSE, text |-> <<>>]]]
    /\ embeddings = [p \in {"p1", "p2"} |-> <<>>]
    /\ stored_chunks = [p \in {"p1", "p2"} |-> <<>>]
    /\ ret = [p \in {"p1", "p2"} |-> [ok |-> FALSE, err |-> "none", value |-> <<>>]]
    /\ pre = [p \in {"p1", "p2"} |->
                [store |-> store, loads |-> 0, ok_so_far |-> TRUE,
                 db |-> [kind |-> "nofile",
                         data |-> [buckets |-> <<>>, bucket_files |-> <<>>]]]]
    /\ db = [kind |-> "nofile", data |-> [buckets |-> <<>>, bucket_files |-> <<>>]]
    /\ uuids = 0
    /\ local_db = [p \in {"p1", "p2"} |-> [buckets |-> <<>>, bucket_files |-> <<>>]]

SpecChunk == SpecChunkInit /\ [][ChunkNext]_vars

(***************************************************************************)
(* Store, embedder and search: data                                        *)
(***************************************************************************)
MaxStore == 3    \* chunk records on disk, all buckets together
MaxBatch == 2    \* chunks passed to one store_chunks call
MaxTopK == 2     \* largest top_k tried
MaxLoads == 2    \* modelLoads saturates here

Filenames == {"doc1.txt", "doc2.txt"}
\* Texts are sequences of characters, as in chunk_text.
X == <<"x">>
Y == <<"y">>
Q == <<"q">>
ChunkTexts == {X, Y}
Queries == {X, Y, Q}
Procs == {"p1", "p2"}
SeqProcs == {"p1"}
Batches == UNION {[1..n -> ChunkTexts] : n \in 0..MaxBatch}

\* model.embed (rag/mod.rs:169): the embedding model is a fixed function of the
\* text. cos(X, Y) = 1/sqrt(101) < 0.1; "q" scores 0.707 on "x", 0.774 on "y".
Embed(t) == CASE t = X -> <<1, 0>>
              [] t = Y -> <<1, 10>>
              [] OTHER   -> <<1, 1>>

\* struct Chunk (rag/mod.rs:33-38)
Chunk(content, filename, embedding) ==
    [content |-> content, filename |-> filename, embedding |-> embedding]

\* The file an upload names: its file name, whether the path exists, and the
\* text that parse_file extracts from it.
NoDoc == [name |-> "", present |-> FALSE, text |-> <<>>]

NoCall == [op |-> "none", bucket_id |-> "A", filename |-> "", chunks |-> <<>>,
           query |-> <<>>, top_k |-> 0, file_id |-> 0, doc |-> NoDoc]
NoRet == [ok |-> FALSE, err |-> "none", value |-> <<>>]
Ok(v) == [ok |-> TRUE, err |-> "", value |-> v]
Err(e) == [ok |-> FALSE, err |-> e, value |-> <<>>]

\* The bucket directory and its chunks.json:
\*   "nodir"   no bucket directory;   "nofile"  directory without chunks.json;
\*   "valid"   chunks.json holds the JSON of recs;
\*   "corrupt" chunks.json holds text that is not the JSON of a record list.
NoDir == [kind |-> "nodir", recs |-> <<>>]
NoFile == [kind |-> "nofile", recs |-> <<>>]
Valid(recs) == [kind |-> "valid", recs |-> recs]
Corrupt == [kind |-> "corrupt", recs |-> <<>>]

\* exists that takes every path to be there.
exists_always(st) == TRUE

\* chunks_file.exists()
exists(st) == st.kind \in {"valid", "corrupt"}

\* The buckets there are: the ids the host has used.
Buckets == DOMAIN store

RECURSIVE RecsIn(_)
RecsIn(bs) ==
    IF bs = {} THEN 0
    ELSE LET b == CHOOSE x \in bs : TRUE
         IN  Len(store[b].recs) + RecsIn(bs \ {b})

TotalRecs == RecsIn(Buckets)

\* fs::write that reports success without touching a file that is there.
fs_write_keeps(st, recs, out) ==
    IF st.kind = "nodir" \/ out = "open_fail" THEN [st |-> st, ok |-> FALSE]
    ELSE IF out = "partial" THEN [st |-> Corrupt, ok |-> FALSE]
    ELSE [st |-> IF st.kind = "valid" THEN st ELSE Valid(recs), ok |-> TRUE]

\* fs::write(path, data): create-and-truncate, then write. out is what the file
\* system does: "ok"; "open_fail" (nothing touched); "partial" (the file was
\* truncated and the write stopped before the end: no prefix of a JSON list is
\* a JSON list). Without the directory the open always fails.
fs_write(st, recs, out) ==
    IF st.kind = "nodir" \/ out = "open_fail" THEN [st |-> st, ok |-> FALSE]
    ELSE IF out = "partial" THEN [st |-> Corrupt, ok |-> FALSE]
    ELSE [st |-> Valid(recs), ok |-> TRUE]

\* serde_json::from_str::<Vec<Chunk>>(&content)
from_str(st) == IF st.kind = "valid" THEN Ok(st.recs) ELSE Err("StoreIOError")

\* Result::unwrap_or_default
unwrap_or_default(r) == IF r.ok THEN r.value ELSE <<>>

(***************************************************************************)
(* Embedder                                                                *)
(***************************************************************************)
\* create_embedding_model without the CACHE_DIR check (the model's default
\* cache location used instead).
create_embedding_model_unchecked(cacheSet, out) ==
    IF out = "load_fail" THEN "ModelLoadError" ELSE "ok"

\* create_embedding_model (rag/mod.rs:42-58). out is what TextEmbedding does.
create_embedding_model(cacheSet, out) ==
    IF ~cacheSet THEN "CacheNotInitialized"
    ELSE IF out = "load_fail" THEN "ModelLoadError"
    ELSE "ok"

\* get_embeddings_local without the return on an empty batch.
get_embeddings_local_unguarded(texts, cacheSet, out) ==
    LET m == create_embedding_model(cacheSet, out)
    IN  IF m # "ok" THEN [res |-> Err(m), loaded |-> FALSE]
        ELSE IF out = "embed_fail"
             THEN [res |-> Err("EmbeddingError"), loaded |-> TRUE]
             ELSE [res |-> Ok([k \in 1..Len(texts) |-> Embed(texts[k])]),
                   loaded |-> TRUE]

\* get_embeddings_local (rag/mod.rs:159-172): the result and whether a model
\* was loaded on the way.
get_embeddings_local(texts, cacheSet, out) ==
    IF texts = <<>> THEN [res |-> Ok(<<>>), loaded |-> FALSE]
    ELSE LET m == create_embedding_model(cacheSet, out)
         IN  IF m # "ok" THEN [res |-> Err(m), loaded |-> FALSE]
             ELSE IF out = "embed_fail"
                  THEN [res |-> Err("EmbeddingError"), loaded |-> TRUE]
                  ELSE [res |-> Ok([k \in 1..Len(texts) |-> Embed(texts[k])]),
                        loaded |-> TRUE]

EmbedOutcomes == {"ok", "load_fail", "embed_fail"}
WriteOutcomes == {"ok", "open_fail", "partial"}

CountLoad(n, loaded) == IF loaded THEN Min(n + 1, MaxLoads) ELSE n

(***************************************************************************)
(* Similarity search: pure part                                            *)
(***************************************************************************)
\* a.iter().zip(b.iter()).map(|(x, y)| x * y).sum()
RECURSIVE DotTo(_, _, _)
DotTo(a, b, n) == IF n = 0 THEN 0 ELSE DotTo(a, b, n - 1) + a[n] * b[n]
Dot(a, b) == DotTo(a, b, Min(Len(a), Len(b)))

\* cosine_similarity (rag/mod.rs:244-254). The score num / sqrt(den2) is kept
\* as the exact pair (num, den2), den2 > 0.
cosine_similarity(a, b) ==
    LET dot == Dot(a, b)
        na2 == Dot(a, a)
        nb2 == Dot(b, b)
    IN  IF na2 = 0 \/ nb2 = 0 THEN [num |-> 0, den2 |-> 1]
        ELSE [num |-> dot, den2 |-> na2 * nb2]

SignedSq(n) == IF n >= 0 THEN n * n ELSE 0 - n * n

\* The comparison the wrong way round: s < t.
ScoreLT(s, t) == SignedSq(s.num) * t.den2 < SignedSq(t.num) * s.den2

\* s > t on scores
ScoreGT(s, t) == SignedSq(s.num) * t.den2 > SignedSq(t.num) * s.den2

\* *score > 0.1 (rag/mod.rs:317)
AboveFloor(s) == s.num > 0 /\ 100 * s.num * s.num > s.den2

\* An unstable insertion: an entry goes before the earlier entries it ties with.
RECURSIVE InsertDescUnstable(_, _)
InsertDescUnstable(sorted, x) ==
    IF sorted = <<>> THEN <<x>>
    ELSE IF ~ScoreGT(Head(sorted)[2], x[2]) THEN <<x>> \o sorted
    ELSE <<Head(sorted)>> \o InsertDescUnstable(Tail(sorted), x)

\* scores.sort_by(|a, b| b.1.partial_cmp(&a.1)...) (rag/mod.rs:310): slice::sort_by
\* is stable, so an entry goes after every earlier entry it does not beat.
RECURSIVE InsertDesc(_, _)
InsertDesc(sorted, x) ==
    IF sorted = <<>> THEN <<x>>
    ELSE IF ScoreGT(x[2], Head(sorted)[2]) THEN <<x>> \o sorted
    ELSE <<Head(sorted)>> \o InsertDesc(Tail(sorted), x)

\* sort_by that leaves the entries in store order.
sort_by_none(s) == s

RECURSIVE sort_by(_)
sort_by(s) ==
    IF s = <<>> THEN <<>>
    ELSE InsertDesc(sort_by(SubSeq(s, 1, Len(s) - 1)), s[Len(s)])

\* Iterator::take
take(s, n) == SubSeq(s, 1, Min(n, Len(s)))

\* filter_floor with the relevance floor left out.
filter_nothing(s) == s

\* Iterator::filter on the score
RECURSIVE filter_floor(_)
filter_floor(s) ==
    IF s = <<>> THEN <<>>
    ELSE IF AboveFloor(Head(s)[2]) THEN <<Head(s)>> \o filter_floor(Tail(s))
    ELSE filter_floor(Tail(s))

\* rag/mod.rs:299-323: score every chunk, rank, take top_k, filter, map.
Rank(chs, query_embedding, top_k) ==
    LET scores == [k \in 1..Len(chs) |->
                      <<k, cosine_similarity(query_embedding, chs[k].embedding)>>]
        kept == filter_floor(take(sort_by(scores), top_k))
    IN  [k \in 1..Len(kept) |->
            [content |-> chs[kept[k][1]].content,
             filename |-> chs[kept[k][1]].filename,
             score |-> kept[k][2]]]

\* retain that stops at the first record of the file.
RECURSIVE retain_first(_, _)
retain_first(chs, filename) ==
    IF chs = <<>> THEN <<>>
    ELSE IF Head(chs).filename # filename
         THEN <<Head(chs)>> \o retain_first(Tail(chs), filename)
         ELSE Tail(chs)

\* chunks.retain(|c| c.filename != filename) (rag/mod.rs:236)
RECURSIVE retain(_, _)
retain(chs, filename) ==
    IF chs = <<>> THEN <<>>
    ELSE IF Head(chs).filename # filename
         THEN <<Head(chs)>> \o retain(Tail(chs), filename)
         ELSE retain(Tail(chs), filename)

\* rag/mod.rs:204-210: one record per (chunk, embedding) pair, zip stops at
\* the shorter of the two.
NewChunks(cs, embs, filename) ==
    [k \in 1..Min(Len(cs), Len(embs)) |-> Chunk(cs[k], filename, embs[k])]

(***************************************************************************)
(* Document registry: database.json (db/mod.rs)                            *)
(***************************************************************************)
\* Database::default() (db/mod.rs:13-19), its buckets and bucket_files
DefaultDb == [buckets |-> <<>>, bucket_files |-> <<>>]

\* database.json: not there, holding a Database, or not deserializable
NoDbFile == [kind |-> "nofile", data |-> DefaultDb]
ValidDb(data) == [kind |-> "valid", data |-> data]
CorruptDb == [kind |-> "corrupt", data |-> DefaultDb]

\* struct Bucket and struct BucketFile (commands/knowledge.rs), the fields used
Bucket(id, file_count) == [id |-> id, file_count |-> file_count]
BucketFile(id, bucket_id, filename, chunk_count) ==
    [id |-> id, bucket_id |-> bucket_id, filename |-> filename,
     chunk_count |-> chunk_count]

\* load_db (db/mod.rs:27-36): a missing, unreadable or undeserializable file
\* loads as the default database.
load_db(d) == IF d.kind = "valid" THEN d.data ELSE DefaultDb

\* save_db (db/mod.rs:38-43): fs::write in place.
save_db(d, data, out) ==
    IF out = "open_fail" THEN [db |-> d, ok |-> FALSE]
    ELSE IF out = "partial" THEN [db |-> CorruptDb, ok |-> FALSE]
    ELSE [db |-> ValidDb(data), ok |-> TRUE]

\* create_bucket_file (db/mod.rs:338): what it does to the loaded Database
create_bucket_file(data, file) == [data EXCEPT !.bucket_files = <<file>> \o @]

\* delete_bucket_file (db/mod.rs:349): what it does to the loaded Database
delete_bucket_file(data, file_id) ==
    [data EXCEPT !.bucket_files = SelectSeq(@, LAMBDA f : f.id # file_id)]

\* The place of the first bucket with this id, 0 when there is none.
RECURSIVE find(_, _, _)
find(bs, id, k) ==
    IF k > Len(bs) THEN 0 ELSE IF bs[k].id = id THEN k ELSE find(bs, id, k + 1)

\* update_bucket_file_count that writes the number of all document records
update_bucket_file_count_all(data, bucket_id) ==
    LET count == Len(data.bucket_files)
        at == find(data.buckets, bucket_id, 1)
    IN  IF at = 0 THEN data
        ELSE [data EXCEPT !.buckets[at].file_count = count]

\* update_bucket_file_count (db/mod.rs:328-331): what it does to the loaded
\* Database
update_bucket_file_count(data, bucket_id) ==
    LET count == Len(SelectSeq(data.bucket_files, LAMBDA f : f.bucket_id = bucket_id))
        at == find(data.buckets, bucket_id, 1)
    IN  IF at = 0 THEN data
        ELSE [data EXCEPT !.buckets[at].file_count = count]

(***************************************************************************)
(* Store, embedder and search: the calls                                   *)
(***************************************************************************)
StoreInit ==
    /\ host \in {"app", "lib"}
    /\ CACHE_DIR = FALSE
    /\ modelLoads = 0
    /\ store = [b \in {"A"} |-> NoDir]
    /\ pc = [p \in Procs |-> "idle"]
    /\ call = [p \in Procs |-> NoCall]
    /\ embeddings = [p \in Procs |-> <<>>]
    /\ stored_chunks = [p \in Procs |-> <<>>]
    /\ ret = [p \in Procs |-> NoRet]
    /\ pre = [p \in Procs |-> [store |-> [b \in Buckets |-> NoDir], loads |-> 0,
                              db |-> NoDbFile, ok_so_far |-> TRUE]]
    /\ db = NoDbFile
    /\ uuids = 0
    /\ local_db = [p \in Procs |-> DefaultDb]

\* chunk_text is not running.
ChunkIdle ==
    /\ text = <<>> /\ chunk_size = 0 /\ overlap = 0 /\ words = <<>>
    /\ i = 0 /\ chunks = <<>> /\ ends = <<>> /\ cpc = "done"

Init ==
    /\ StoreInit
    /\ ChunkIdle
    /\ CosIdle

\* The commands of commands/knowledge.rs that change a bucket's documents
Commands == {"upload_file", "delete_file"}

\* A call starts: its arguments are recorded, with the store, the load count
\* and the registry as they are now, and whether the commands of this caller
\* have all returned Ok up to now.
Begin(p, c) ==
    /\ pc[p] = "idle"
    /\ call' = [call EXCEPT ![p] = c]
    /\ pre' = [pre EXCEPT ![p] =
                 [store |-> store, loads |-> modelLoads, db |-> db,
                  ok_so_far |-> IF c.op \in Commands
                                THEN pre[p].ok_so_far /\ (ret[p] = NoRet \/ ret[p].ok)
                                ELSE pre[p].ok_so_far]]

\* The call goes on at another step, with locals e (embeddings) and s
\* (stored_chunks).
Goto(p, at, e, s) ==
    /\ pc' = [pc EXCEPT ![p] = at]
    /\ ret' = [ret EXCEPT ![p] = NoRet]
    /\ embeddings' = [embeddings EXCEPT ![p] = e]
    /\ stored_chunks' = [stored_chunks EXCEPT ![p] = s]

\* The call returns r; its locals are dropped.
Return(p, r) ==
    /\ pc' = [pc EXCEPT ![p] = "idle"]
    /\ ret' = [ret EXCEPT ![p] = r]
    /\ embeddings' = [embeddings EXCEPT ![p] = <<>>]
    /\ stored_chunks' = [stored_chunks EXCEPT ![p] = <<>>]

IoResult(ok) == IF ok THEN Ok(<<>>) ELSE Err("StoreIOError")

\* delete_file_chunks returns r: to its caller, or into delete_file
\* (knowledge.rs:186-190), which goes on when r is Ok.
ReturnFromDelete(p, r) ==
    IF r.ok /\ call[p].op = "delete_file"
    THEN Goto(p, "df_file", <<>>, <<>>)
    ELSE Return(p, r)

\* The process ends and run() (lib.rs:7-46) starts it again: the statics and the
\* callers start afresh, the files under the data directory stay.
restart(p) ==
    /\ \A q \in Procs : pc[q] = "idle"
    /\ CACHE_DIR' = FALSE
    /\ modelLoads' = 0
    /\ call' = [q \in Procs |-> NoCall]
    /\ ret' = [q \in Procs |-> NoRet]
    /\ pre' = [q \in Procs |-> [store |-> [b \in Buckets |-> NoDir], loads |-> 0,
                               db |-> NoDbFile, ok_so_far |-> TRUE]]
    /\ embeddings' = [q \in Procs |-> <<>>]
    /\ stored_chunks' = [q \in Procs |-> <<>>]
    /\ UNCHANGED pureVars /\ UNCHANGED regVars /\ UNCHANGED <<host, store, pc>>

\* init_cache_dir (rag/mod.rs:18-31). run() (lib.rs:7-46) never calls it, and
\* nothing else in the repository does: only a host other than the application
\* as wired can. fails: app_data_dir or create_dir_all fails.
init_cache_dir(p) ==
    /\ host = "lib"
    /\ pc[p] = "idle"
    /\ \E fails \in BOOLEAN :
          CACHE_DIR' = IF fails THEN CACHE_DIR ELSE TRUE
    /\ UNCHANGED pureVars /\ UNCHANGED regVars
    /\ UNCHANGED <<host, modelLoads, store, pc, call, embeddings, stored_chunks, ret, pre>>

\* init_bucket_store (rag/mod.rs:65-74). create_bucket (knowledge.rs:43-58) calls
\* it with a fresh uuid, so in the application the bucket has no directory yet.
\* mk: create_dir_all succeeds.
init_bucket_store(p) ==
    \E b \in Buckets, mk \in BOOLEAN, out \in WriteOutcomes :
        /\ host = "app" => store[b].kind = "nodir"
        /\ Begin(p, [NoCall EXCEPT !.op = "init_bucket_store", !.bucket_id = b])
        /\ LET dir == IF store[b].kind = "nodir" THEN NoFile ELSE store[b]
               w == fs_write(dir, <<>>, out)
           IN  IF store[b].kind = "nodir" /\ ~mk
               THEN store' = store /\ Return(p, Err("StoreIOError"))
               ELSE store' = [store EXCEPT ![b] = w.st] /\ Return(p, IoResult(w.ok))
        /\ UNCHANGED pureVars /\ UNCHANGED regVars /\ UNCHANGED <<host, CACHE_DIR, modelLoads>>

\* delete_bucket_store that removes chunks.json and leaves the directory.
delete_bucket_store_file_only(p) ==
    \E b \in Buckets, out \in {"ok", "fail", "partial"} :
        /\ Begin(p, [NoCall EXCEPT !.op = "delete_bucket_store", !.bucket_id = b])
        /\ IF store[b].kind = "nodir"
           THEN store' = store /\ Return(p, Ok(<<>>))
           ELSE IF out = "ok"
                THEN store' = [store EXCEPT ![b] = NoFile] /\ Return(p, Ok(<<>>))
                ELSE /\ store' = [store EXCEPT ![b] = IF out = "partial" THEN NoFile ELSE @]
                     /\ Return(p, Err("StoreIOError"))
        /\ UNCHANGED pureVars /\ UNCHANGED regVars /\ UNCHANGED <<host, CACHE_DIR, modelLoads>>

\* delete_bucket_store (rag/mod.rs:76-82). out is what remove_dir_all does:
\* "ok", "fail" (nothing removed) or "partial" (chunks.json removed, the
\* directory left).
delete_bucket_store(p) ==
    \E b \in Buckets, out \in {"ok", "fail", "partial"} :
        /\ Begin(p, [NoCall EXCEPT !.op = "delete_bucket_store", !.bucket_id = b])
        /\ IF store[b].kind = "nodir"
           THEN store' = store /\ Return(p, Ok(<<>>))
           ELSE IF out = "ok"
                THEN store' = [store EXCEPT ![b] = NoDir] /\ Return(p, Ok(<<>>))
                ELSE /\ store' = [store EXCEPT ![b] = IF out = "partial" THEN NoFile ELSE @]
                     /\ Return(p, Err("StoreIOError"))
        /\ UNCHANGED pureVars /\ UNCHANGED regVars /\ UNCHANGED <<host, CACHE_DIR, modelLoads>>

\* store_chunks (rag/mod.rs:174-186): the call and the empty-list return.
\* upload_file (knowledge.rs:139-148) passes a non-empty list.
store_chunks(p) ==
    \E b \in Buckets, f \in Filenames, cs \in Batches :
        /\ host = "app" => cs # <<>>
        /\ TotalRecs + Len(cs) <= MaxStore
        /\ Begin(p, [NoCall EXCEPT !.op = "store_chunks", !.bucket_id = b,
                                   !.filename = f, !.chunks = cs])
        /\ IF cs = <<>> THEN Return(p, Ok(<<>>)) ELSE Goto(p, "sc_embed", <<>>, <<>>)
        /\ UNCHANGED pureVars /\ UNCHANGED regVars /\ UNCHANGED <<host, CACHE_DIR, modelLoads, store>>

\* store_chunks (rag/mod.rs:188-193): get_embeddings_local(chunks, true)?
sc_embed(p) ==
    /\ pc[p] = "sc_embed"
    /\ \E out \in EmbedOutcomes :
        LET e == get_embeddings_local(call[p].chunks, CACHE_DIR, out)
        IN  /\ modelLoads' = CountLoad(modelLoads, e.loaded)
            /\ IF e.res.ok
               THEN Goto(p, "sc_load", e.res.value, <<>>)
               ELSE Return(p, e.res)
    /\ UNCHANGED pureVars /\ UNCHANGED regVars /\ UNCHANGED <<host, CACHE_DIR, store, call, pre>>

\* LoadExisting that starts from an empty list whatever the file holds.
LoadExistingNone(st, rd) == Ok(<<>>)

\* What store_chunks takes the existing records to be (rag/mod.rs:196-201);
\* rd: read_to_string succeeds.
LoadExisting(st, rd) ==
    IF exists(st)
    THEN IF rd THEN Ok(unwrap_or_default(from_str(st))) ELSE Err("StoreIOError")
    ELSE Ok(<<>>)

\* store_chunks (rag/mod.rs:195-210): load the existing records, push the new.
sc_load(p) ==
    /\ pc[p] = "sc_load"
    /\ \E rd \in BOOLEAN :
        LET l == LoadExisting(store[call[p].bucket_id], rd)
        IN  IF l.ok
            THEN Goto(p, "sc_write", embeddings[p],
                      l.value \o NewChunks(call[p].chunks, embeddings[p], call[p].filename))
            ELSE Return(p, l)
    /\ UNCHANGED pureVars /\ UNCHANGED regVars /\ UNCHANGED <<host, CACHE_DIR, modelLoads, store, call, pre>>

\* sc_write with one chunks.json for all buckets.
sc_write_shared(p) ==
    /\ pc[p] = "sc_write"
    /\ \E out \in WriteOutcomes :
        LET w == fs_write(store[call[p].bucket_id], stored_chunks[p], out)
        IN  /\ store' = [b \in Buckets |-> w.st]
            /\ Return(p, IoResult(w.ok))
    /\ UNCHANGED pureVars /\ UNCHANGED regVars /\ UNCHANGED <<host, CACHE_DIR, modelLoads, call, pre>>

\* sc_write that reads the file again and appends to what it holds now.
sc_write_merging(p) ==
    /\ pc[p] = "sc_write"
    /\ \E out \in WriteOutcomes :
        LET now == unwrap_or_default(from_str(store[call[p].bucket_id]))
            w == fs_write(store[call[p].bucket_id],
                          now \o NewChunks(call[p].chunks, embeddings[p], call[p].filename),
                          out)
        IN  /\ store' = [store EXCEPT ![call[p].bucket_id] = w.st]
            /\ Return(p, IoResult(w.ok))
    /\ UNCHANGED pureVars /\ UNCHANGED regVars /\ UNCHANGED <<host, CACHE_DIR, modelLoads, call, pre>>

\* store_chunks (rag/mod.rs:212-218): serialize and fs::write.  Called from
\* upload_file (knowledge.rs:147-148), a success goes on in upload_file.
sc_write(p) ==
    /\ pc[p] = "sc_write"
    /\ \E out \in WriteOutcomes :
        LET w == fs_write(store[call[p].bucket_id], stored_chunks[p], out)
        IN  /\ store' = [store EXCEPT ![call[p].bucket_id] = w.st]
            /\ IF w.ok /\ call[p].op = "upload_file"
               THEN Goto(p, "uf_file", <<>>, <<>>)
               ELSE Return(p, IoResult(w.ok))
    /\ UNCHANGED pureVars /\ UNCHANGED regVars /\ UNCHANGED <<host, CACHE_DIR, modelLoads, call, pre>>

\* delete_file_chunks (rag/mod.rs:221-227): the call.
delete_file_chunks(p) ==
    \E b \in Buckets, f \in Filenames :
        /\ Begin(p, [NoCall EXCEPT !.op = "delete_file_chunks", !.bucket_id = b,
                                   !.filename = f])
        /\ Goto(p, "dfc_load", <<>>, <<>>)
        /\ UNCHANGED pureVars /\ UNCHANGED regVars /\ UNCHANGED <<host, CACHE_DIR, modelLoads, store>>

\* What delete_file_chunks and search load (rag/mod.rs:233-234, 274-275).
LoadStrict(st, rd) == IF rd THEN from_str(st) ELSE Err("StoreIOError")

\* delete_file_chunks (rag/mod.rs:229-236): missing file, read, parse, retain.
dfc_load(p) ==
    /\ pc[p] = "dfc_load"
    /\ IF ~exists(store[call[p].bucket_id])
       THEN ReturnFromDelete(p, Ok(<<>>))
       ELSE \E rd \in BOOLEAN :
              LET l == LoadStrict(store[call[p].bucket_id], rd)
              IN  IF l.ok
                  THEN Goto(p, "dfc_write", <<>>, retain(l.value, call[p].filename))
                  ELSE Return(p, l)
    /\ UNCHANGED pureVars /\ UNCHANGED regVars /\ UNCHANGED <<host, CACHE_DIR, modelLoads, store, call, pre>>

\* delete_file_chunks (rag/mod.rs:238-241): serialize and fs::write.
dfc_write(p) ==
    /\ pc[p] = "dfc_write"
    /\ \E out \in WriteOutcomes :
        LET w == fs_write(store[call[p].bucket_id], stored_chunks[p], out)
        IN  /\ store' = [store EXCEPT ![call[p].bucket_id] = w.st]
            /\ ReturnFromDelete(p, IoResult(w.ok))
    /\ UNCHANGED pureVars /\ UNCHANGED regVars /\ UNCHANGED <<host, CACHE_DIR, modelLoads, call, pre>>

\* search (rag/mod.rs:256-264): the call. search_bucket (knowledge.rs:207-218)
\* passes top_k or 5.
search(p) ==
    \E b \in Buckets, q \in Queries, k \in 0..MaxTopK :
        /\ Begin(p, [NoCall EXCEPT !.op = "search", !.bucket_id = b,
                                   !.query = q, !.top_k = k])
        /\ Goto(p, "s_load", <<>>, <<>>)
        /\ UNCHANGED pureVars /\ UNCHANGED regVars /\ UNCHANGED <<host, CACHE_DIR, modelLoads, store>>

\* s_load without the return on an empty list.
s_load_no_empty_return(p) ==
    /\ pc[p] = "s_load"
    /\ IF ~exists(store[call[p].bucket_id])
       THEN Return(p, Ok(<<>>))
       ELSE \E rd \in BOOLEAN :
              LET l == LoadStrict(store[call[p].bucket_id], rd)
              IN  IF ~l.ok THEN Return(p, l)
                  ELSE Goto(p, "s_embed", <<>>, l.value)
    /\ UNCHANGED pureVars /\ UNCHANGED regVars /\ UNCHANGED <<host, CACHE_DIR, modelLoads, store, call, pre>>

\* s_load that makes an empty chunks.json for a bucket that has none.
s_load_creating(p) ==
    /\ pc[p] = "s_load"
    /\ IF ~exists(store[call[p].bucket_id])
       THEN /\ store' = [store EXCEPT ![call[p].bucket_id] = Valid(<<>>)]
            /\ Return(p, Ok(<<>>))
       ELSE /\ store' = store
            /\ \E rd \in BOOLEAN :
                 LET l == LoadStrict(store[call[p].bucket_id], rd)
                 IN  IF ~l.ok THEN Return(p, l)
                     ELSE IF l.value = <<>> THEN Return(p, Ok(<<>>))
                     ELSE Goto(p, "s_embed", <<>>, l.value)
    /\ UNCHANGED pureVars /\ UNCHANGED regVars /\ UNCHANGED <<host, CACHE_DIR, modelLoads, call, pre>>

\* search (rag/mod.rs:268-282): missing file, read, parse, empty list.
s_load(p) ==
    /\ pc[p] = "s_load"
    /\ IF ~exists(store[call[p].bucket_id])
       THEN Return(p, Ok(<<>>))
       ELSE \E rd \in BOOLEAN :
              LET l == LoadStrict(store[call[p].bucket_id], rd)
              IN  IF ~l.ok THEN Return(p, l)
                  ELSE IF l.value = <<>> THEN Return(p, Ok(<<>>))
                  ELSE Goto(p, "s_embed", <<>>, l.value)
    /\ UNCHANGED pureVars /\ UNCHANGED regVars /\ UNCHANGED <<host, CACHE_DIR, modelLoads, store, call, pre>>

\* search (rag/mod.rs:292-327): embed the query, rank, return.
s_embed(p) ==
    /\ pc[p] = "s_embed"
    /\ \E out \in EmbedOutcomes :
        LET e == get_embeddings_local(<<call[p].query>>, CACHE_DIR, out)
        IN  /\ modelLoads' = CountLoad(modelLoads, e.loaded)
            /\ IF ~e.res.ok THEN Return(p, e.res)
               ELSE IF e.res.value = <<>> THEN Return(p, Err("No embedding returned"))
               ELSE Return(p, Ok(Rank(stored_chunks[p], e.res.value[1], call[p].top_k)))
    /\ UNCHANGED pureVars /\ UNCHANGED regVars /\ UNCHANGED <<host, CACHE_DIR, store, call, pre>>

Step(p) ==
    \/ restart(p)
    \/ init_cache_dir(p)
    \/ init_bucket_store(p)
    \/ delete_bucket_store(p)
    \/ store_chunks(p)
    \/ sc_embed(p)
    \/ sc_load(p)
    \/ sc_write(p)
    \/ delete_file_chunks(p)
    \/ dfc_load(p)
    \/ dfc_write(p)
    \/ search(p)
    \/ s_load(p)
    \/ s_embed(p)

\* One caller at a time: the calls run one after the other.
Next == \E p \in SeqProcs : Step(p)

Spec == Init /\ [][Next]_vars

(***************************************************************************)
(* The upload_file and delete_file commands (commands/knowledge.rs),      *)
(* SpecCmd                                                                 *)
(***************************************************************************)
MaxUploads == 2          \* file ids handed out
UploadChunkSize == 500   \* knowledge.rs:135
UploadOverlap == 50      \* knowledge.rs:135

DocNames == Filenames \cup {"pic.png"}
DocTexts == {<<>>, <<" ">>, X, <<" ">> \o Y}

\* knowledge.rs:104-116: the file type of the extension of the file name
file_type(name) == IF name \in {"doc1.txt", "doc2.txt"} THEN "txt" ELSE "unsupported"

\* upload_file that does not look at the extracted text before chunking.
uf_parse_unchecked(p) ==
    /\ pc[p] = "uf_parse"
    /\ \E ok \in BOOLEAN :
          IF ~ok THEN Return(p, Err("ParseError"))
          ELSE Goto(p, "uf_chunk", <<>>, <<>>)
    /\ UNCHANGED pureVars /\ UNCHANGED regVars
    /\ UNCHANGED <<host, CACHE_DIR, modelLoads, store, call, pre>>

\* upload_file (knowledge.rs:84-116): the call, the path and the extension.
upload_file(p) ==
    \E b \in Buckets, n \in DocNames, pr \in BOOLEAN, t \in DocTexts :
        /\ uuids < MaxUploads
        /\ TotalRecs < MaxStore
        /\ Begin(p, [NoCall EXCEPT !.op = "upload_file", !.bucket_id = b,
                                   !.filename = n,
                                   !.doc = [name |-> n, present |-> pr, text |-> t]])
        /\ IF ~pr THEN Return(p, Err("FileNotFound"))
           ELSE IF file_type(n) = "unsupported" THEN Return(p, Err("UnsupportedFileType"))
           ELSE Goto(p, "uf_parse", <<>>, <<>>)
        /\ UNCHANGED pureVars /\ UNCHANGED regVars
        /\ UNCHANGED <<host, CACHE_DIR, modelLoads, store>>

\* upload_file (knowledge.rs:120-128): parse_file, then the blank check.
\* ok: parse_file (rag/mod.rs:84-130) could read the file.
uf_parse(p) ==
    /\ pc[p] = "uf_parse"
    /\ \E ok \in BOOLEAN :
          IF ~ok THEN Return(p, Err("ParseError"))
          ELSE IF trim_is_empty(call[p].doc.text) THEN Return(p, Err("EmptyDocument"))
          ELSE Goto(p, "uf_chunk", <<>>, <<>>)
    /\ UNCHANGED pureVars /\ UNCHANGED regVars
    /\ UNCHANGED <<host, CACHE_DIR, modelLoads, store, call, pre>>

\* upload_file (knowledge.rs:130-148): metadata, chunk_text, the empty-list
\* check, then store_chunks, entered past its own empty-list return.
uf_chunk(p) ==
    /\ pc[p] = "uf_chunk"
    /\ \E md \in BOOLEAN :
          LET cs == chunk_text(call[p].doc.text, UploadChunkSize, UploadOverlap)
          IN  IF ~md THEN Return(p, Err("MetadataError")) /\ call' = call
              ELSE IF cs = <<>> THEN Return(p, Err("NoContent")) /\ call' = call
              ELSE /\ call' = [call EXCEPT ![p].chunks = cs]
                   /\ Goto(p, "sc_embed", <<>>, <<>>)
    /\ UNCHANGED pureVars /\ UNCHANGED regVars
    /\ UNCHANGED <<host, CACHE_DIR, modelLoads, store, pre>>

\* A db function has run load_db (db/mod.rs:27-36) and changed its local
\* Database to data; save_db is still to come.
db_load(p, at, next, data) ==
    /\ pc[p] = at
    /\ local_db' = [local_db EXCEPT ![p] = data]
    /\ Goto(p, next, <<>>, stored_chunks[p])
    /\ UNCHANGED pureVars
    /\ UNCHANGED <<host, CACHE_DIR, modelLoads, store, call, pre, db>>

\* save_db (db/mod.rs:38-43) of the local Database; the command goes on at
\* next, or returns Ok with its local bucket_file when next is "idle".
db_save(p, at, next) ==
    /\ pc[p] = at
    /\ \E out \in WriteOutcomes :
          LET r == save_db(db, local_db[p], out)
          IN  /\ db' = r.db
              /\ IF ~r.ok THEN Return(p, Err("RegistryError"))
                 ELSE IF next = "idle" THEN Return(p, Ok(stored_chunks[p]))
                 ELSE Goto(p, next, <<>>, stored_chunks[p])
    /\ local_db' = [local_db EXCEPT ![p] = DefaultDb]
    /\ UNCHANGED pureVars
    /\ UNCHANGED <<host, CACHE_DIR, modelLoads, store, call, pre>>

\* upload_file (knowledge.rs:153-164) and db::create_bucket_file
\* (db/mod.rs:337-338): the BucketFile with a fresh id, put first in the loaded
\* Database.  The local bucket_file is kept in stored_chunks.
uf_file(p) ==
    LET bucket_file == BucketFile(uuids + 1, call[p].bucket_id, call[p].filename,
                                  Len(call[p].chunks))
    IN  /\ pc[p] = "uf_file"
        /\ local_db' = [local_db EXCEPT ![p] = create_bucket_file(load_db(db), bucket_file)]
        /\ uuids' = uuids + 1
        /\ Goto(p, "uf_file_save", <<>>, <<bucket_file>>)
        /\ UNCHANGED pureVars
        /\ UNCHANGED <<host, CACHE_DIR, modelLoads, store, call, pre, db>>

\* db::create_bucket_file (db/mod.rs:339) and knowledge.rs:166-167
uf_file_save(p) ==
    /\ db_save(p, "uf_file_save", "uf_count")
    /\ UNCHANGED uuids

\* upload_file (knowledge.rs:170): db::update_bucket_file_count
\* (db/mod.rs:327-331)
uf_count(p) ==
    /\ db_load(p, "uf_count", "uf_count_save",
               update_bucket_file_count(load_db(db), call[p].bucket_id))
    /\ UNCHANGED uuids

\* db::update_bucket_file_count (db/mod.rs:332) and knowledge.rs:170-175
uf_count_save(p) ==
    /\ db_save(p, "uf_count_save", "idle")
    /\ UNCHANGED uuids

\* delete_file (knowledge.rs:179-187): the call, for a document of the
\* registry: its bucket, its id and its file name.
delete_file(p) ==
    \E k \in 1..Len(load_db(db).bucket_files) :
        LET f == load_db(db).bucket_files[k]
        IN  /\ Begin(p, [NoCall EXCEPT !.op = "delete_file", !.bucket_id = f.bucket_id,
                                       !.filename = f.filename, !.file_id = f.id])
            /\ Goto(p, "dfc_load", <<>>, <<>>)
            /\ UNCHANGED pureVars /\ UNCHANGED regVars
            /\ UNCHANGED <<host, CACHE_DIR, modelLoads, store>>

\* delete_file (knowledge.rs:190): db::delete_bucket_file (db/mod.rs:348-349)
df_file(p) ==
    /\ db_load(p, "df_file", "df_file_save",
               delete_bucket_file(load_db(db), call[p].file_id))
    /\ UNCHANGED uuids

\* db::delete_bucket_file (db/mod.rs:350) and knowledge.rs:190-191
df_file_save(p) ==
    /\ db_save(p, "df_file_save", "df_count")
    /\ UNCHANGED uuids

\* delete_file (knowledge.rs:194): db::update_bucket_file_count
\* (db/mod.rs:327-331)
df_count(p) ==
    /\ db_load(p, "df_count", "df_count_save",
               update_bucket_file_count(load_db(db), call[p].bucket_id))
    /\ UNCHANGED uuids

\* db::update_bucket_file_count (db/mod.rs:332) and knowledge.rs:194-197
df_count_save(p) ==
    /\ db_save(p, "df_count_save", "idle")
    /\ UNCHANGED uuids

\* The state after create_bucket (knowledge.rs:38-62) of bucket A: its empty
\* store and its Bucket in the registry, no file in it.
CmdInit ==
    /\ host \in {"app", "lib"}
    /\ CACHE_DIR = FALSE
    /\ modelLoads = 0
    /\ store = [b \in {"A"} |-> Valid(<<>>)]
    /\ pc = [p \in Procs |-> "idle"]
    /\ call = [p \in Procs |-> NoCall]
    /\ embeddings = [p \in Procs |-> <<>>]
    /\ stored_chunks = [p \in Procs |-> <<>>]
    /\ ret = [p \in Procs |-> NoRet]
    /\ db = ValidDb([buckets |-> <<Bucket("A", 0)>>, bucket_files |-> <<>>])
    /\ pre = [p \in Procs |-> [store |-> store, loads |-> 0, db |-> db,
                              ok_so_far |-> TRUE]]
    /\ uuids = 0
    /\ local_db = [p \in Procs |-> DefaultDb]
    /\ ChunkIdle
    /\ CosIdle

CmdStep(p) ==
    \/ init_cache_dir(p)
    \/ upload_file(p)
    \/ uf_parse(p)
    \/ uf_chunk(p)
    \/ sc_embed(p)
    \/ sc_load(p)
    \/ sc_write(p)
    \/ uf_file(p)
    \/ uf_file_save(p)
    \/ uf_count(p)
    \/ uf_count_save(p)
    \/ delete_file(p)
    \/ dfc_load(p)
    \/ dfc_write(p)
    \/ df_file(p)
    \/ df_file_save(p)
    \/ df_count(p)
    \/ df_count_save(p)

\* The commands run one after the other.
CmdNext == \E p \in SeqProcs : CmdStep(p)

SpecCmd == CmdInit /\ [][CmdNext]_vars

(***************************************************************************)
(* Two callers at once (SpecConc): the Tauri commands are async and run    *)
(* on a thread pool, so the steps of two calls interleave.  Each caller    *)
(* makes one call, on the bucket its call record names from the start and  *)
(* for its own file name.                                                  *)
(***************************************************************************)
FileOf(p) == IF p = "p1" THEN "doc1.txt" ELSE "doc2.txt"

\* What a bucket holds when the two calls start.
ConcStores ==
    {<<>>,
     <<Chunk(X, "doc1.txt", Embed(X))>>,
     <<Chunk(Y, "doc2.txt", Embed(Y)), Chunk(X, "doc1.txt", Embed(X))>>}

\* The cache directory is set, both buckets have been created and filled; p1
\* works on bucket A, p2 on A or on B.
ConcInit ==
    /\ host = "lib"
    /\ CACHE_DIR = TRUE
    /\ modelLoads = 0
    /\ store \in [{"A", "B"} -> {Valid(recs) : recs \in ConcStores}]
    /\ TotalRecs < MaxStore
    /\ pc = [p \in Procs |-> "idle"]
    /\ \E hb \in {"A", "B"} :
          call = [p \in Procs |->
                    [NoCall EXCEPT !.bucket_id = IF p = "p1" THEN "A" ELSE hb]]
    /\ embeddings = [p \in Procs |-> <<>>]
    /\ stored_chunks = [p \in Procs |-> <<>>]
    /\ ret = [p \in Procs |-> NoRet]
    /\ pre = [p \in Procs |-> [store |-> store, loads |-> 0, db |-> NoDbFile,
                              ok_so_far |-> TRUE]]
    /\ db = NoDbFile
    /\ uuids = 0
    /\ local_db = [p \in Procs |-> DefaultDb]
    /\ ChunkIdle
    /\ CosIdle

\* The caller's first call, on its bucket, for its file.
AtHome(p) ==
    /\ ret[p] = NoRet
    /\ call'[p].bucket_id = call[p].bucket_id
    /\ call'[p].filename \in {"", FileOf(p)}

\* store_chunks by p of one chunk of its file into its bucket
store_chunks_home(p) ==
    store_chunks(p) /\ AtHome(p) /\ call'[p].chunks = <<X>>

\* delete_file_chunks by p of its file from its bucket
delete_file_chunks_home(p) == delete_file_chunks(p) /\ AtHome(p)

\* search by p of its bucket
search_home(p) ==
    search(p) /\ AtHome(p) /\ call'[p].query = X /\ call'[p].top_k = MaxTopK

ConcStep(p) ==
    \/ store_chunks_home(p)
    \/ sc_embed(p)
    \/ sc_load(p)
    \/ sc_write(p)
    \/ delete_file_chunks_home(p)
    \/ dfc_load(p)
    \/ dfc_write(p)
    \/ search_home(p)
    \/ s_load(p)
    \/ s_embed(p)

ConcNext == \E p \in Procs : ConcStep(p)

SpecConc == ConcInit /\ [][ConcNext]_vars

(***************************************************************************)
(* The document commands on two buckets, one at a time (SpecBuckets): the  *)
(* uploads are of readable text files with one word, into bucket A or B.   *)
(***************************************************************************)
\* The cache directory is set; bucket A and then bucket B have been created
\* (knowledge.rs:38-62): their empty stores and their Buckets in the
\* registry, the newer first (db/mod.rs: insert(0, ..)).
BucketsInit ==
    /\ host = "lib"
    /\ CACHE_DIR = TRUE
    /\ modelLoads = 0
    /\ store = [b \in {"A", "B"} |-> Valid(<<>>)]
    /\ pc = [p \in Procs |-> "idle"]
    /\ call = [p \in Procs |-> NoCall]
    /\ embeddings = [p \in Procs |-> <<>>]
    /\ stored_chunks = [p \in Procs |-> <<>>]
    /\ ret = [p \in Procs |-> NoRet]
    /\ db = ValidDb([buckets |-> <<Bucket("B", 0), Bucket("A", 0)>>,
                     bucket_files |-> <<>>])
    /\ pre = [p \in Procs |-> [store |-> store, loads |-> 0, db |-> db,
                              ok_so_far |-> TRUE]]
    /\ uuids = 0
    /\ local_db = [p \in Procs |-> DefaultDb]
    /\ ChunkIdle
    /\ CosIdle

\* upload_file of a readable text file with the one word x
upload_file_text(p) ==
    /\ upload_file(p)
    /\ call'[p].doc.present
    /\ call'[p].doc.name \in Filenames
    /\ call'[p].doc.text = X

BucketsStep(p) ==
    \/ upload_file_text(p)
    \/ uf_parse(p)
    \/ uf_chunk(p)
    \/ sc_embed(p)
    \/ sc_load(p)
    \/ sc_write(p)
    \/ uf_file(p)
    \/ uf_file_save(p)
    \/ uf_count(p)
    \/ uf_count_save(p)
    \/ delete_file(p)
    \/ dfc_load(p)
    \/ dfc_write(p)
    \/ df_file(p)
    \/ df_file_save(p)
    \/ df_count(p)
    \/ df_count_save(p)

\* The commands run one after the other.
BucketsNext == \E p \in SeqProcs : BucketsStep(p)

SpecBuckets == BucketsInit /\ [][BucketsNext]_vars

(***************************************************************************)
(* Two uploads at once (SpecUp): upload_file is an async command, so two   *)
(* of them run on the thread pool together; every db function loads        *)
(* database.json, changes its own copy and writes the whole file back      *)
(* (db/mod.rs:27-43), with no lock around the three.  p1 uploads its file  *)
(* to bucket A, p2 its file to bucket B.                                   *)
(***************************************************************************)
BucketOf(p) == IF p = "p1" THEN "A" ELSE "B"

\* The cache directory is set; buckets A and B have been created.
UpInit == BucketsInit

\* upload_file by p, once, of its own readable text file into its bucket
upload_file_own(p) ==
    /\ upload_file(p)
    /\ call[p] = NoCall
    /\ call'[p].bucket_id = BucketOf(p)
    /\ call'[p].doc = [name |-> FileOf(p), present |-> TRUE, text |-> X]

UpStep(p) ==
    \/ upload_file_own(p)
    \/ uf_parse(p)
    \/ uf_chunk(p)
    \/ sc_embed(p)
    \/ sc_load(p)
    \/ sc_write(p)
    \/ uf_file(p)
    \/ uf_file_save(p)
    \/ uf_count(p)
    \/ uf_count_save(p)

UpNext == \E p \in Procs : UpStep(p)

SpecUp == UpInit /\ [][UpNext]_vars

(***************************************************************************)
(* cosine_similarity on f32 vectors of any magnitude (SpecCos)             *)
(*                                                                         *)
(* A vector is [m, e]: the coordinates m[k] * 2^e, m[k] a small integer.   *)
(* An f32 value is Fin(m, e) = m * 2^e, Inf(s) or NaN.  The products and   *)
(* sums of small integers at these exponents are exact in f32 unless they  *)
(* leave its range.                                                        *)
(***************************************************************************)
MaxCoord == 2        \* largest |m[k]| tried
Dim == 2             \* coordinates of a vector
F32MinExp == -149    \* 2^-149 is the smallest positive f32
F32MaxExp == 128     \* 2^128 and above is no finite f32
Exps == {0 - 80, 0, 70}

Vecs == [m : [1..Dim -> (0 - MaxCoord)..MaxCoord], e : Exps]

Fin(m, e) == [k |-> "fin", m |-> m, e |-> e]
Inf(sgn) == [k |-> "inf", s |-> sgn]
NaN == [k |-> "nan"]

Abs(n) == IF n >= 0 THEN n ELSE 0 - n
Sgn(n) == IF n > 0 THEN 1 ELSE IF n < 0 THEN 0 - 1 ELSE 0

\* m * 2^e as f32: infinity from 2^128 on, zero below half of 2^-149.
round32(m, e) ==
    IF m = 0 THEN Fin(0, 0)
    ELSE IF e >= F32MaxExp THEN Inf(Sgn(m))
    ELSE IF e < F32MinExp - 1 /\ Abs(m) < 2 ^ (F32MinExp - 1 - e) THEN Fin(0, 0)
    ELSE Fin(m, e)

\* x * y of two finite f32
mul32(x, y) == round32(x.m * y.m, x.e + y.e)

\* x + y; finite non-zero terms of one sum have the same exponent here.
add32(x, y) ==
    IF x.k = "nan" \/ y.k = "nan" THEN NaN
    ELSE IF x.k = "inf" /\ y.k = "inf" THEN (IF x.s = y.s THEN x ELSE NaN)
    ELSE IF x.k = "inf" THEN x
    ELSE IF y.k = "inf" THEN y
    ELSE IF x.m = 0 THEN y
    ELSE IF y.m = 0 THEN x
    ELSE round32(x.m + y.m, x.e)

\* a.iter().zip(b.iter()).map(|(x, y)| x * y).sum() (rag/mod.rs:245)
RECURSIVE dot32(_, _, _)
dot32(a, b, n) ==
    IF n = 0 THEN Fin(0, 0)
    ELSE add32(dot32(a, b, n - 1), mul32(Fin(a.m[n], a.e), Fin(b.m[n], b.e)))

\* cosine_similarity (rag/mod.rs:244-254) in f32.  norm_a and norm_b are kept
\* as their squares na2 and nb2: sqrt of an f32 is 0.0 only for 0.0 and
\* infinite only for infinity, and with both squares finite neither
\* norm_a * norm_b nor dot is infinite.  A finite result is the pair
\* (num, den2) of cosine_similarity above.
cosine_similarity_f32(a, b) ==
    LET dot == dot32(a, b, Dim)
        na2 == dot32(a, a, Dim)
        nb2 == dot32(b, b, Dim)
    IN  IF (na2.k = "fin" /\ na2.m = 0) \/ (nb2.k = "fin" /\ nb2.m = 0)
        THEN [k |-> "fin", num |-> 0, den2 |-> 1]
        ELSE IF dot.k = "nan" THEN NaN
        ELSE IF na2.k = "inf" \/ nb2.k = "inf"
             THEN (IF dot.k = "inf" THEN NaN ELSE [k |-> "fin", num |-> 0, den2 |-> 1])
        ELSE [k |-> "fin", num |-> dot.m, den2 |-> na2.m * nb2.m]

CosInit ==
    /\ vec_a \in Vecs
    /\ vec_b \in Vecs
    /\ similarity = [k |-> "fin", num |-> 0, den2 |-> 1]
    /\ cospc = "start"

\* One call cosine_similarity(vec_a, vec_b).
CosApply ==
    /\ cospc = "start"
    /\ similarity' = cosine_similarity_f32(vec_a, vec_b)
    /\ cospc' = "done"
    /\ UNCHANGED <<vec_a, vec_b>>
    /\ UNCHANGED chunkVars /\ UNCHANGED docxVars
    /\ UNCHANGED storeVars

CosNext == CosApply

SpecCosInit ==
    /\ CosInit
    /\ DocxIdle
    /\ ChunkIdle
    /\ StoreInit

SpecCos == SpecCosInit /\ [][CosNext]_vars

(***************************************************************************)
(* parse_file, the docx branch: the tag stripping (SpecDocx)               *)
(*                                                                         *)
(* word/document.xml is a sequence of parts, each a tag or a run of text.  *)
(***************************************************************************)
MaxParts == 2        \* parts of a document.xml

NL == "\n"

Part(kind, chars) == [kind |-> kind, chars |-> chars]

\* The parts tried: a run of text, the paragraph and line-break start tags
\* (plain, with an attribute, self-closing), a closing tag, and other tags.
DocxParts ==
    {Part("text",  <<"a">>),
     Part("start", <<"<", "w", ":", "p", ">">>),
     Part("start", <<"<", "w", ":", "p", " ", "a", ">">>),
     Part("start", <<"<", "w", ":", "b", "r", ">">>),
     Part("start", <<"<", "w", ":", "b", "r", "/", ">">>),
     Part("close", <<"<", "/", "w", ":", "p", ">">>),
     Part("other", <<"<", "w", ":", "r", ">">>),
     Part("other", <<"<", "x", "w", ":", "p", ">">>)}

RECURSIVE CharsOf(_)
CharsOf(ps) == IF ps = <<>> THEN <<>> ELSE Head(ps).chars \o CharsOf(Tail(ps))

\* str::ends_with
ends_with(s, suffix) ==
    /\ Len(s) >= Len(suffix)
    /\ SubSeq(s, Len(s) - Len(suffix) + 1, Len(s)) = suffix

\* rag/mod.rs:112: result.ends_with("w:p") || result.ends_with("w:br")
IsBreakTag(r) == ends_with(r, <<"w", ":", "p">>) \/ ends_with(r, <<"w", ":", "b", "r">>)

DocxInit ==
    /\ parts \in UNION {[1..n -> DocxParts] : n \in 0..MaxParts}
    /\ xml = CharsOf(parts)
    /\ dpos = 0
    /\ in_tag = FALSE
    /\ result = <<>>
    /\ docx_text = <<>>

\* rag/mod.rs:109: '<' => in_tag = true
DocxLt ==
    /\ dpos < Len(xml) /\ xml[dpos + 1] = "<"
    /\ in_tag' = TRUE
    /\ dpos' = dpos + 1
    /\ UNCHANGED <<xml, parts, result, docx_text>>
    /\ UNCHANGED chunkVars /\ UNCHANGED cosVars /\ UNCHANGED storeVars

\* rag/mod.rs:110-116: '>' ends the tag, a newline if result ends with w:p
\* or w:br, result cleared.
DocxGt ==
    /\ dpos < Len(xml) /\ xml[dpos + 1] = ">"
    /\ in_tag' = FALSE
    /\ docx_text' = IF IsBreakTag(result) THEN Append(docx_text, NL) ELSE docx_text
    /\ result' = <<>>
    /\ dpos' = dpos + 1
    /\ UNCHANGED <<xml, parts>>
    /\ UNCHANGED chunkVars /\ UNCHANGED cosVars /\ UNCHANGED storeVars

\* rag/mod.rs:117-118: any other character goes to text outside a tag and to
\* result inside one.
DocxChar ==
    /\ dpos < Len(xml) /\ xml[dpos + 1] \notin {"<", ">"}
    /\ IF ~in_tag
       THEN docx_text' = Append(docx_text, xml[dpos + 1]) /\ result' = result
       ELSE result' = Append(result, xml[dpos + 1]) /\ docx_text' = docx_text
    /\ dpos' = dpos + 1
    /\ UNCHANGED <<xml, parts, in_tag>>
    /\ UNCHANGED chunkVars /\ UNCHANGED cosVars /\ UNCHANGED storeVars

DocxNext == DocxLt \/ DocxGt \/ DocxChar

SpecDocxInit ==
    /\ DocxInit
    /\ ChunkIdle
    /\ vec_a = <<>> /\ vec_b = <<>>
    /\ similarity = [k |-> "fin", num |-> 0, den2 |-> 1]
    /\ cospc = "done"
    /\ StoreInit

SpecDocx == SpecDocxInit /\ [][DocxNext]_vars

(***************************************************************************)
(* Claims: chunk_text (under SpecChunk)                                    *)
(***************************************************************************)
\* C1: with chunk_size >= 1, every loop iteration that goes on to another
\* iteration has advanced the start index i by at least one token, whatever
\* the overlap (also overlap >= chunk_size), so the loop ends.
C1_AdvancesEveryIteration ==
    [][(chunk_size >= 1 /\ cpc = "loop" /\ cpc' = "loop") => i' > i]_vars

\* The tokens of a window, without its first n.
DropTokens(window, n) ==
    LET ts == split_whitespace(window)
    IN  IF n >= Len(ts) THEN <<>> ELSE SubSeq(ts, n + 1, Len(ts))

\* The windows concatenated, each but the first without its first o tokens.
RECURSIVE Reconstruct(_, _, _)
Reconstruct(ws, k, o) ==
    IF k > Len(ws) THEN <<>>
    ELSE DropTokens(ws[k], IF k = 1 THEN 0 ELSE o) \o Reconstruct(ws, k + 1, o)

\* C2: for a text with at least one token and 0 <= overlap < chunk_size, the
\* returned windows, concatenated after dropping the first overlap tokens of
\* every window but the first, are the token sequence of the text; the last
\* window ends at the token count and no other window does.
C2_WindowsReconstructTokens ==
    (cpc = "done" /\ words # <<>> /\ overlap < chunk_size) =>
        /\ Reconstruct(chunks, 1, overlap) = words
        /\ Len(ends) = Len(chunks)
        /\ Len(ends) >= 1
        /\ ends[Len(ends)] = Len(words)
        /\ \A k \in 1..(Len(ends) - 1) : ends[k] < Len(words)

\* C2 witness: a finished run with two overlapping windows.
C2_Witness ==
    /\ cpc = "done"
    /\ overlap >= 1 /\ overlap < chunk_size
    /\ Len(chunks) >= 2
    /\ text # join(words, 0, Len(words))

\* A text without a whitespace-delimited token: empty or all spaces.
NoToken(t) == \A k \in 1..Len(t) : t[k] = " "

\* C21: chunk_text with chunk_size >= 1 returns the empty sequence exactly
\* when the text has no token; so does chunk_text with the window and overlap
\* of upload_file, whose blank check rejects exactly the texts without token.
C21_EmptyIffNoToken ==
    /\ (cpc = "done" /\ chunk_size >= 1) => (chunks = <<>> <=> NoToken(text))
    /\ chunk_text(text, UploadChunkSize, UploadOverlap) = <<>> <=> NoToken(text)

\* C21 witness: chunk_text returned no window for a text of spaces only.
C21_Witness ==
    /\ cpc = "done" /\ chunk_size >= 1
    /\ Len(text) >= 2 /\ NoToken(text)
    /\ chunks = <<>>

\* Tokens joined by single spaces.
RECURSIVE Spaced(_)
Spaced(ts) ==
    IF ts = <<>> THEN <<>>
    ELSE IF Len(ts) = 1 THEN ts[1]
    ELSE ts[1] \o <<" ">> \o Spaced(Tail(ts))

\* The tokens the k-th window (k from 0) is to hold: [k*(w-o), min(k*(w-o)+w, n)).
WindowTokens(ws, k, w, o) ==
    SubSeq(ws, k * (w - o) + 1,
           IF k * (w - o) + w <= Len(ws) THEN k * (w - o) + w ELSE Len(ws))

\* C26: with chunk_size >= 1 and overlap < chunk_size, the k-th window
\* returned (k from 0) is the tokens [k*(w-o), min(k*(w-o)+w, n)) joined by
\* single spaces; every window but the last holds exactly chunk_size tokens,
\* the last at least one and at most chunk_size, and the last ends at n.
C26_KthWindow ==
    (cpc = "done" /\ chunk_size >= 1 /\ overlap < chunk_size /\ words # <<>>) =>
        /\ Len(chunks) >= 1
        /\ \A k \in 0..(Len(chunks) - 1) :
              /\ chunks[k + 1] = Spaced(WindowTokens(words, k, chunk_size, overlap))
              /\ Len(WindowTokens(words, k, chunk_size, overlap)) >= 1
              /\ k < Len(chunks) - 1 =>
                    Len(WindowTokens(words, k, chunk_size, overlap)) = chunk_size
        /\ (Len(chunks) - 1) * (chunk_size - overlap) + chunk_size >= Len(words)

\* C26 witness: two overlapping windows, the last one short.
C26_Witness ==
    /\ cpc = "done"
    /\ overlap >= 1 /\ overlap < chunk_size
    /\ Len(chunks) = 2
    /\ Len(split_whitespace(chunks[2])) < chunk_size

(***************************************************************************)
(* Claims: store, embedder, search (under Spec)                            *)
(***************************************************************************)
\* Caller p has completed a call of op.
Done(p, op) == pc[p] = "idle" /\ call[p].op = op /\ ret[p] # NoRet

\* load(bucket): the records of the store, none when there is no file.
Load(st) == IF st.kind = "valid" THEN st.recs ELSE <<>>

\* C3: a search that returns results returns at most top_k of them, each with
\* a score above 0.1 (score = num / sqrt(den2)); top_k = 0 gives none.
C3_SearchBoundedAndAboveFloor ==
    \A p \in Procs :
        (Done(p, "search") /\ ret[p].ok) =>
            /\ Len(ret[p].value) <= call[p].top_k
            /\ \A k \in 1..Len(ret[p].value) :
                  /\ ret[p].value[k].score.num > 0
                  /\ 100 * ret[p].value[k].score.num * ret[p].value[k].score.num
                        > ret[p].value[k].score.den2

\* C3 witness: a search with top_k = 2 over three records that returned one
\* result: one record cut by top_k, one by the floor.
C3_Witness ==
    \E p \in Procs :
        /\ Done(p, "search") /\ ret[p].ok
        /\ call[p].top_k = 2
        /\ Len(pre[p].store[call[p].bucket_id].recs) = 3
        /\ Len(ret[p].value) = 1

\* The records store_chunks is to append for its arguments.
Appended(c) == [k \in 1..Len(c.chunks) |-> Chunk(c.chunks[k], c.filename, Embed(c.chunks[k]))]

\* C4: after a successful store_chunks on a store that was missing, empty or
\* loadable, the store loads as the records it held before, in their order,
\* followed by one record per chunk, tagged with the filename, in chunk order.
C4_AppendThenLoad ==
    \A p \in Procs :
        (Done(p, "store_chunks") /\ ret[p].ok
            /\ pre[p].store[call[p].bucket_id].kind # "corrupt") =>
            /\ Load(store[call[p].bucket_id]) =
                  Load(pre[p].store[call[p].bucket_id]) \o Appended(call[p])
            /\ call[p].chunks # <<>> => store[call[p].bucket_id].kind = "valid"

\* C4 witness: two chunks appended to a store that held a record.
C4_Witness ==
    \E p \in Procs :
        /\ Done(p, "store_chunks") /\ ret[p].ok
        /\ Len(call[p].chunks) = 2
        /\ pre[p].store[call[p].bucket_id].kind = "valid"
        /\ Len(pre[p].store[call[p].bucket_id].recs) >= 1

\* C5: after a successful delete_file_chunks on a store that existed, the store
\* loads as the records it held before whose filename differs, in their order.
C5_RemoveByFilename ==
    \A p \in Procs :
        (Done(p, "delete_file_chunks") /\ ret[p].ok
            /\ exists(pre[p].store[call[p].bucket_id])) =>
            /\ store[call[p].bucket_id].kind = "valid"
            /\ Load(store[call[p].bucket_id]) =
                  SelectSeq(pre[p].store[call[p].bucket_id].recs,
                            LAMBDA r : r.filename # call[p].filename)
            /\ \A k \in 1..Len(Load(store[call[p].bucket_id])) :
                  Load(store[call[p].bucket_id])[k].filename # call[p].filename

\* C5 witness: of three records the middle one was removed, two others kept.
C5_Witness ==
    \E p \in Procs :
        /\ Done(p, "delete_file_chunks") /\ ret[p].ok
        /\ Len(pre[p].store[call[p].bucket_id].recs) = 3
        /\ pre[p].store[call[p].bucket_id].recs[2].filename = call[p].filename
        /\ Len(store[call[p].bucket_id].recs) = 2
        /\ store[call[p].bucket_id].recs[1] # store[call[p].bucket_id].recs[2]

\* C6: a store_chunks that fails with a serialization or file error leaves the
\* store of the bucket exactly as it was before the call.
C6_AppendFailsAtomically ==
    \A p \in Procs :
        (Done(p, "store_chunks") /\ ret[p].err = "StoreIOError") =>
            store[call[p].bucket_id] = pre[p].store[call[p].bucket_id]

\* C7: when chunks.json exists but does not deserialize, store_chunks (given
\* chunks), delete_file_chunks and search return an error and leave the file
\* as it was.
C7_LoadFailureNeverSwallowed ==
    \A p \in Procs :
        (/\ pc[p] = "idle" /\ ret[p] # NoRet
         /\ \/ call[p].op \in {"delete_file_chunks", "search"}
            \/ call[p].op = "store_chunks" /\ call[p].chunks # <<>>
         /\ pre[p].store[call[p].bucket_id].kind = "corrupt") =>
            /\ ~ret[p].ok
            /\ store[call[p].bucket_id] = pre[p].store[call[p].bucket_id]

\* C8: the embedding model is loaded at most once in the life of the process.
C8_ModelLoadedAtMostOnce == modelLoads <= 1

\* C9: in the application as wired by run(), CACHE_DIR is set whenever a
\* command is about to embed, and no command fails for want of it.
C9_CacheDirSetBeforeEmbedding ==
    host = "app" =>
        \A p \in Procs :
            /\ pc[p] \in {"sc_embed", "s_embed"} => CACHE_DIR
            /\ ret[p].err # "CacheNotInitialized"

\* C10: an embedding step taken while CACHE_DIR is not set ends the call with
\* the cache-not-initialized error, loads no model and writes nothing; a call
\* that ended so has left the store and the load count as they were at the call.
C10_CacheNotInitializedPropagates ==
    /\ [][\A p \in Procs :
            (pc[p] \in {"sc_embed", "s_embed"} /\ ~CACHE_DIR /\ pc'[p] # pc[p]) =>
                /\ pc'[p] = "idle"
                /\ ret'[p] = Err("CacheNotInitialized")
                /\ modelLoads' = modelLoads
                /\ store' = store]_vars
    /\ [](\A p \in Procs :
            (pc[p] = "idle" /\ ret[p].err = "CacheNotInitialized") =>
                /\ call[p].op \in {"store_chunks", "search"}
                /\ store = pre[p].store
                /\ modelLoads = pre[p].loads)

\* C10 witness: store_chunks on a bucket holding records failed so.
C10_Witness ==
    \E p \in Procs :
        /\ Done(p, "store_chunks")
        /\ ret[p].err = "CacheNotInitialized"
        /\ pre[p].store[call[p].bucket_id].kind = "valid"
        /\ pre[p].store[call[p].bucket_id].recs # <<>>

\* C10, the search half of the witness.
C10_WitnessSearch ==
    \E p \in Procs : Done(p, "search") /\ ret[p].err = "CacheNotInitialized"

\* The score of record r for query embedding q beats that of record t.
CosBeats(q, r, t) ==
    SignedSq(Dot(q, r.embedding)) * Dot(t.embedding, t.embedding)
        > SignedSq(Dot(q, t.embedding)) * Dot(r.embedding, r.embedding)

\* The place of record j of recs in the ranking for q: one more than the
\* records that beat it or tie with it from an earlier place in the store.
PlaceOf(recs, q, j) ==
    1 + Cardinality({k \in 1..Len(recs) :
                        \/ CosBeats(q, recs[k], recs[j])
                        \/ ~CosBeats(q, recs[j], recs[k]) /\ k < j})

\* C13: the k-th result of a search is the record ranked k-th by score
\* descending, ties in store order; so the scores never increase down the list
\* and results of equal score keep the order of their records in the store.
C13_RankedDescendingStable ==
    \A p \in Procs :
        (Done(p, "search") /\ ret[p].ok) =>
            LET recs == pre[p].store[call[p].bucket_id].recs
                q == Embed(call[p].query)
                v == ret[p].value
            IN  /\ \A k \in 1..Len(v) :
                      \E j \in 1..Len(recs) :
                          /\ PlaceOf(recs, q, j) = k
                          /\ v[k].content = recs[j].content
                          /\ v[k].filename = recs[j].filename
                          /\ v[k].score = cosine_similarity(q, recs[j].embedding)
                /\ \A k \in 1..(Len(v) - 1) :
                      SignedSq(v[k].score.num) * v[k + 1].score.den2
                          >= SignedSq(v[k + 1].score.num) * v[k].score.den2

\* C13 witness: two results of equal score from different records, found in
\* the store behind a record of lower score.
C13_Witness ==
    \E p \in Procs :
        /\ Done(p, "search") /\ ret[p].ok
        /\ Len(ret[p].value) = 2
        /\ ret[p].value[1].score = ret[p].value[2].score
        /\ ret[p].value[1].filename # ret[p].value[2].filename
        /\ pre[p].store[call[p].bucket_id].recs[1].content # ret[p].value[1].content

\* C14: a search that finds no chunks.json, or one holding an empty list,
\* returns at that step, before the step that embeds the query: with the empty
\* result (an error only when the file could not be read) and no model load.
C14_EmptyStoreSearch ==
    [][\A p \in Procs :
          (/\ pc[p] = "s_load" /\ pc'[p] # pc[p]
           /\ store[call[p].bucket_id] \in {NoDir, NoFile, Valid(<<>>)}) =>
              /\ pc'[p] = "idle"
              /\ ret'[p] \in {Ok(<<>>), Err("StoreIOError")}
              /\ store[call[p].bucket_id] \in {NoDir, NoFile} => ret'[p] = Ok(<<>>)
              /\ modelLoads' = modelLoads
              /\ store' = store]_vars

\* C14 witness: a search of a store holding an empty list returned the empty
\* result with the cache directory not set.
C14_Witness ==
    \E p \in Procs :
        /\ Done(p, "search") /\ ret[p] = Ok(<<>>)
        /\ pre[p].store[call[p].bucket_id] = Valid(<<>>)
        /\ ~CACHE_DIR

\* C15: after a successful init_bucket_store the store holds the empty list,
\* whatever it held before; on a store that holds the empty list it changes
\* nothing.
C15_InitAlwaysEmpty ==
    \A p \in Procs :
        (Done(p, "init_bucket_store") /\ ret[p].ok) =>
            /\ store[call[p].bucket_id] = Valid(<<>>)
            /\ Load(store[call[p].bucket_id]) = <<>>
            /\ pre[p].store[call[p].bucket_id] = Valid(<<>>) => store = pre[p].store

\* C15 witness: init_bucket_store succeeded on a store that held records.
C15_Witness ==
    \E p \in Procs :
        /\ Done(p, "init_bucket_store") /\ ret[p].ok
        /\ pre[p].store[call[p].bucket_id].recs # <<>>

\* C16: after a successful delete_bucket_store nothing of the store is left, so
\* it loads as empty; when there was no store the call succeeds and changes
\* nothing.
C16_DeleteRemovesStore ==
    \A p \in Procs :
        Done(p, "delete_bucket_store") =>
            /\ ret[p].ok =>
                  /\ store[call[p].bucket_id] = NoDir
                  /\ Load(store[call[p].bucket_id]) = <<>>
            /\ pre[p].store[call[p].bucket_id] = NoDir =>
                  ret[p].ok /\ store = pre[p].store

\* C16 witness: a store holding records was deleted.
C16_Witness ==
    \E p \in Procs :
        /\ Done(p, "delete_bucket_store") /\ ret[p].ok
        /\ pre[p].store[call[p].bucket_id].recs # <<>>

\* C17: delete_file_chunks on a bucket without chunks.json returns success and
\* leaves the bucket as it was: no file and no directory is made.
C17_RemoveOnMissingStore ==
    \A p \in Procs :
        (/\ Done(p, "delete_file_chunks")
         /\ pre[p].store[call[p].bucket_id] \in {NoDir, NoFile}) =>
            /\ ret[p] = Ok(<<>>)
            /\ store = pre[p].store

\* C17 witness: delete_file_chunks returned on a bucket without a directory.
C17_Witness ==
    \E p \in Procs :
        /\ Done(p, "delete_file_chunks")
        /\ pre[p].store[call[p].bucket_id] = NoDir

\* C18: when the store holds a record whose embedding is the embedding of the
\* query, a search with top_k >= 1 returns such a record first, with a score
\* above 0.99.
C18_IdenticalEmbeddingFirst ==
    \A p \in Procs :
        (/\ Done(p, "search") /\ ret[p].ok /\ call[p].top_k >= 1
         /\ \E j \in 1..Len(pre[p].store[call[p].bucket_id].recs) :
               pre[p].store[call[p].bucket_id].recs[j].embedding = Embed(call[p].query)) =>
            /\ Len(ret[p].value) >= 1
            /\ Embed(ret[p].value[1].content) = Embed(call[p].query)
            /\ ret[p].value[1].score.num > 0
            /\ 10000 * ret[p].value[1].score.num * ret[p].value[1].score.num
                  > 9801 * ret[p].value[1].score.den2

\* C18 witness: the record with the embedding of the query was the last of
\* three in the store and came back first.
C18_Witness ==
    \E p \in Procs :
        /\ Done(p, "search") /\ ret[p].ok
        /\ Len(pre[p].store[call[p].bucket_id].recs) = 3
        /\ pre[p].store[call[p].bucket_id].recs[3].embedding = Embed(call[p].query)
        /\ pre[p].store[call[p].bucket_id].recs[1].embedding # Embed(call[p].query)
        /\ pre[p].store[call[p].bucket_id].recs[2].embedding # Embed(call[p].query)
        /\ Len(ret[p].value) >= 1
        /\ ret[p].value[1].content = pre[p].store[call[p].bucket_id].recs[3].content

(***************************************************************************)
(* Claims: cosine_similarity (under SpecCos)                               *)
(***************************************************************************)
ZeroVec(v) == \A k \in 1..Dim : v.m[k] = 0

\* C19: cosine_similarity never returns NaN, returns 0.0 when a or b has zero
\* magnitude, and returns 1.0 within tolerance (above 0.99) for a = b non-zero.
C19_ZeroGuardAndSelfSimilarity ==
    cospc = "done" =>
        /\ similarity # NaN
        /\ (ZeroVec(vec_a) \/ ZeroVec(vec_b)) =>
              similarity = [k |-> "fin", num |-> 0, den2 |-> 1]
        /\ (vec_a = vec_b /\ ~ZeroVec(vec_a)) =>
              /\ similarity.k = "fin"
              /\ similarity.num > 0
              /\ 10000 * similarity.num * similarity.num > 9801 * similarity.den2

\* C22: get_embeddings_local of an empty batch is the empty result with no
\* model loaded, whatever the cache directory and the model would do; and a
\* store_chunks with an empty chunk list has returned Ok with the store and
\* the count of model loads as they were, also with the cache directory unset.
C22_EmptyBatch ==
    /\ \A c \in BOOLEAN, o \in EmbedOutcomes :
          get_embeddings_local(<<>>, c, o) = [res |-> Ok(<<>>), loaded |-> FALSE]
    /\ \A p \in Procs :
          (Done(p, "store_chunks") /\ call[p].chunks = <<>>) =>
              /\ ret[p] = Ok(<<>>)
              /\ store = pre[p].store
              /\ modelLoads = pre[p].loads

\* C22 witness: store_chunks with an empty list returned Ok on a store with
\* records, the cache directory not set.
C22_Witness ==
    \E p \in Procs :
        /\ Done(p, "store_chunks") /\ call[p].chunks = <<>>
        /\ ret[p] = Ok(<<>>)
        /\ ~CACHE_DIR
        /\ store[call[p].bucket_id].recs # <<>>

\* The score of record r for query embedding q is above 0.1.
ClearsFloor(q, r) ==
    /\ Dot(q, r.embedding) > 0
    /\ 100 * Dot(q, r.embedding) * Dot(q, r.embedding)
          > Dot(q, q) * Dot(r.embedding, r.embedding)

\* The ranked list of recs for q, filtered by the floor first and cut to
\* top_k after.
FilterThenTake(recs, q, top_k) ==
    LET scores == [k \in 1..Len(recs) |->
                      <<k, cosine_similarity(q, recs[k].embedding)>>]
        kept == take(filter_floor(sort_by(scores)), top_k)
    IN  [k \in 1..Len(kept) |->
            [content |-> recs[kept[k][1]].content,
             filename |-> recs[kept[k][1]].filename,
             score |-> kept[k][2]]]

\* C27: what search returns (top_k taken, then the floor applied) is the
\* ranked list with the floor applied first and top_k taken after, and has
\* min(top_k, m) entries, m the number of records with a score above 0.1.
C27_TakeFilterCommute ==
    \A p \in Procs :
        (Done(p, "search") /\ ret[p].ok) =>
            LET recs == pre[p].store[call[p].bucket_id].recs
                q == Embed(call[p].query)
                m == Cardinality({j \in 1..Len(recs) : ClearsFloor(q, recs[j])})
            IN  /\ ret[p].value = FilterThenTake(recs, q, call[p].top_k)
                /\ Len(ret[p].value) = IF call[p].top_k <= m THEN call[p].top_k ELSE m

\* C27 witness: fewer than top_k results, from a store whose first record is
\* below the floor and has a record above it behind.
C27_Witness ==
    \E p \in Procs :
        /\ Done(p, "search") /\ ret[p].ok
        /\ Len(ret[p].value) >= 1
        /\ Len(ret[p].value) < call[p].top_k
        /\ Len(pre[p].store[call[p].bucket_id].recs) > Len(ret[p].value)
        /\ ~ClearsFloor(Embed(call[p].query), pre[p].store[call[p].bucket_id].recs[1])

\* C30: no step of a search changes the store of any bucket, and when the
\* search has returned, with results, none or an error, every bucket's store
\* is as it was at the call.
C30_SearchReadOnly ==
    /\ [](\A p \in Procs : Done(p, "search") => store = pre[p].store)
    /\ [][\A p \in Procs :
            (call'[p].op = "search" /\ (pc'[p] # pc[p] \/ call'[p] # call[p])) =>
                store' = store]_vars

\* C30 witness: a search of an undeserializable store returned an error.
C30_Witness ==
    \E p \in Procs :
        /\ Done(p, "search") /\ ~ret[p].ok
        /\ store[call[p].bucket_id] = Corrupt

(***************************************************************************)
(* Claims: two callers at once (under SpecConc)                            *)
(***************************************************************************)
\* What a completed call of p should have made of the store it found, had it
\* run alone.
Alone(p) ==
    LET b == call[p].bucket_id
        was == pre[p].store[b]
    IN  CASE call[p].op = "store_chunks" ->
                 IF ret[p].ok THEN store[b] = Valid(was.recs \o Appended(call[p]))
                 ELSE store[b] \in {was, Corrupt}
          [] call[p].op = "delete_file_chunks" ->
                 IF ret[p].ok
                 THEN store[b] = Valid(SelectSeq(was.recs,
                                         LAMBDA c : c.filename # call[p].filename))
                 ELSE store[b] \in {was, Corrupt}
          [] call[p].op = "search" ->
                 /\ store[b] = was
                 /\ ret[p].ok => ret[p].value = Rank(was.recs, Embed(call[p].query),
                                                     call[p].top_k)
          [] OTHER -> TRUE

C12_WritePersistsWhatWasLoaded ==
    [][\A p \in Procs :
          (pc[p] = "sc_write" /\ pc'[p] = "idle" /\ ret'[p].ok) =>
              store'[call[p].bucket_id] = Valid(stored_chunks[p])]_vars

\* C12 witness: two store_chunks on one bucket found the same records, both
\* returned Ok, and the store holds those records and the records of one
\* call; the records of the other call are lost.
C12_Witness ==
    \E p \in Procs, q \in Procs :
        /\ p # q
        /\ Done(p, "store_chunks") /\ ret[p].ok
        /\ Done(q, "store_chunks") /\ ret[q].ok
        /\ call[p].bucket_id = call[q].bucket_id
        /\ pre[p].store = pre[q].store
        /\ Appended(call[p]) # <<>>
        /\ store[call[q].bucket_id] =
              Valid(pre[q].store[call[q].bucket_id].recs \o Appended(call[q]))
        /\ \A k \in 1..Len(store[call[q].bucket_id].recs) :
              store[call[q].bucket_id].recs[k].filename # call[p].filename

(***************************************************************************)
(* Claims: the upload_file command (under SpecCmd)                         *)
(***************************************************************************)
\* An upload_file of a file whose extracted text is blank.
BlankUpload(c) ==
    c.op = "upload_file" /\ \A k \in 1..Len(c.doc.text) : c.doc.text[k] = " "

\* C20: an upload_file whose extracted text is empty or whitespace-only ends
\* at the blank check with an error: it never reaches the step that chunks,
\* the embedder, the write of chunks.json or the registry, it has no chunk
\* list, and none of its steps changes the chunk store, the registry or the
\* count of model loads.
C20_BlankUploadRejected ==
    /\ [](\A p \in Procs :
            BlankUpload(call[p]) =>
                /\ pc[p] \in {"idle", "uf_parse"}
                /\ call[p].chunks = <<>>
                /\ pc[p] = "idle" =>
                      ret[p] \in {Err("FileNotFound"), Err("UnsupportedFileType"),
                                  Err("ParseError"), Err("EmptyDocument")})
    /\ [][\A p \in Procs :
            (BlankUpload(call'[p]) /\ (pc'[p] # pc[p] \/ call'[p] # call[p])) =>
                /\ store' = store
                /\ db' = db
                /\ uuids' = uuids
                /\ modelLoads' = modelLoads]_vars

\* C20 witness: an upload of a whitespace-only file into a bucket that holds
\* a document was rejected as empty.
C20_Witness ==
    \E p \in Procs :
        /\ Done(p, "upload_file")
        /\ call[p].doc.text = <<" ">>
        /\ ret[p] = Err("EmptyDocument")
        /\ db.kind = "valid" /\ Len(db.data.bucket_files) >= 1
        /\ Len(store[call[p].bucket_id].recs) >= 1

(***************************************************************************)
(* Claims: the docx extraction (under SpecDocx)                            *)
(***************************************************************************)
\* What the extraction is to emit for the parts: the characters of a run of
\* text, a newline for a paragraph or line-break start tag, nothing else.
RECURSIVE Extracted(_)
Extracted(ps) ==
    IF ps = <<>> THEN <<>>
    ELSE (CASE Head(ps).kind = "text" -> Head(ps).chars
            [] Head(ps).kind = "start" -> <<NL>>
            [] OTHER -> <<>>) \o Extracted(Tail(ps))

\* C25: when the loop has consumed document.xml, the text is the characters
\* outside tags with one newline for every paragraph start tag and line-break
\* start tag (plain, with attributes, or self-closing), and none for closing
\* tags or for other tags whose name ends in the same letters.
C25_DocxExtraction ==
    dpos = Len(xml) => docx_text = Extracted(parts)

(***************************************************************************)
(* Claims: the document commands, one at a time (SpecCmd, SpecBuckets)     *)
(***************************************************************************)
\* The document records the registry shows
Records(d) == load_db(d).bucket_files

\* The bucket's store holds a chunk record with the document's file name.
HasChunks(st, f) ==
    /\ st[f.bucket_id].kind = "valid"
    /\ \E k \in 1..Len(st[f.bucket_id].recs) :
          st[f.bucket_id].recs[k].filename = f.filename

\* C23: after upload_file and delete_file commands that ran one at a time and
\* all returned Ok, every document record of the registry has a chunk record
\* with its file name in its bucket's store, also when two documents of the
\* bucket share a file name.
C23_RecordsHaveChunks ==
    \A p \in Procs :
        (/\ pc[p] = "idle" /\ call[p].op \in Commands
         /\ ret[p].ok /\ pre[p].ok_so_far)
        => \A k \in 1..Len(Records(db)) : HasChunks(store, Records(db)[k])

\* The number of document records of the bucket
CountOf(data, bucket_id) ==
    Len(SelectSeq(data.bucket_files, LAMBDA f : f.bucket_id = bucket_id))

\* C24: when upload_file or delete_file has returned Ok, the file_count of the
\* command's bucket in the registry is the number of the registry's document
\* records of that bucket, and every other bucket of the registry is as it was
\* when the command started.
C24_FileCount ==
    \A p \in Procs :
        (pc[p] = "idle" /\ call[p].op \in Commands /\ ret[p].ok)
        => LET data == load_db(db)
               old == load_db(pre[p].db)
           IN  \A k \in 1..Len(data.buckets) :
                   IF data.buckets[k].id = call[p].bucket_id
                   THEN data.buckets[k].file_count = CountOf(data, call[p].bucket_id)
                   ELSE k <= Len(old.buckets) /\ data.buckets[k] = old.buckets[k]

\* C24 witness: a delete_file on bucket A has returned Ok and left A without
\* documents, while bucket B keeps its one document and its count of one.
C24_Witness ==
    \E p \in Procs :
        /\ Done(p, "delete_file") /\ ret[p].ok
        /\ call[p].bucket_id = "A"
        /\ db.kind = "valid"
        /\ db.data.buckets = <<Bucket("B", 1), Bucket("A", 0)>>
        /\ CountOf(db.data, "B") = 1
        /\ CountOf(load_db(pre[p].db), "A") = 1

\* C28: an upload_file that has returned an error has left the chunk store of
\* its bucket as it was when the command started, whatever step failed.
C28_FailedUploadLeavesStore ==
    \A p \in Procs :
        (Done(p, "upload_file") /\ ~ret[p].ok)
        => store[call[p].bucket_id] = pre[p].store[call[p].bucket_id]

(***************************************************************************)
(* Claims: two uploads at once (under SpecUp)                              *)
(***************************************************************************)
\* C29: when the uploads of p1 to bucket A and of p2 to bucket B, running
\* together, have both returned Ok, the registry holds the document records
\* of both and each bucket's file_count is one.
C29_BothUploadsRecorded ==
    (\A p \in Procs : Done(p, "upload_file") /\ ret[p].ok)
    => /\ db.kind = "valid"
       /\ \A p \in Procs :
             /\ \E k \in 1..Len(db.data.bucket_files) :
                   db.data.bucket_files[k] = ret[p].value[1]
             /\ \E k \in 1..Len(db.data.buckets) :
                   db.data.buckets[k] = Bucket(BucketOf(p), 1)
====
